---------------------------- MODULE Spec2Model ----------------------------
(***************************************************************************)
(* A model of monadplay.cc: the list monad (unit, prod), the derived       *)
(* combinators fmap and foldl, the law-verification harness of main and    *)
(* main's arithmetic demonstration.                                        *)
(*                                                                         *)
(* std::list<int64_t> is a sequence of integers.  A C++ callable is a TLA+ *)
(* function: a unary one has domain Int, a binary one has domain a set of  *)
(* pairs.  A callable held in the state (the F of a running prod or foldl, *)
(* the function of a call under test) is held by its name and looked up    *)
(* with EndoFn, ElemFn or BinFn.                                           *)
(*                                                                         *)
(* prod is modelled by its activations: prod_step is one step of the       *)
(* innermost activation of a call in progress (return the empty list;      *)
(* apply f, pop the front and recurse; splice and return).  foldl is       *)
(* modelled by its loop: foldl_step is one iteration.  A call that main    *)
(* or the harness of SpecFn makes runs one such step per transition        *)
(* (ProdStep, FoldlStep).  A call made while a callable is evaluated (in   *)
(* a law check, in fmap under par(dx_sqr, ls)) and the 10000 iterations of *)
(* the foldl of line 197 are the same steps taken within one transition    *)
(* (prod_steps, foldl_steps).                                              *)
(*                                                                         *)
(* Two specifications share the module.  Spec is the run of main.  SpecFn  *)
(* calls prod, fmap or foldl once on an input drawn from bounded sets.     *)
(***************************************************************************)
EXTENDS Integers, Sequences, FiniteSets

VARIABLES
    pc,         \* position of main (Spec) or of the call under test (SpecFn)
    ls,         \* main's std::list<int64_t> ls
    out,        \* what the printf calls have printed so far, in order
    vals,       \* operands of line 200 evaluated so far
    lsPassed,   \* how many times main has handed ls itself to prod
    prodF,      \* call of prod in progress: name of its F f
    prodRun,    \* call of prod in progress: [stack, ret, retX, calls]
    foldF,      \* call of foldl in progress: name of its F f
    foldRun,    \* call of foldl in progress: [m, k, y]
    fnOp,       \* SpecFn: the function under test
    fnF,        \* SpecFn: name of the callable passed to it
    fnXs,       \* SpecFn: the caller's sequence
    fnY0,       \* SpecFn: the initial accumulator of foldl
    fnRet,      \* SpecFn: the value returned
    fnCalls     \* SpecFn: the arguments f was invoked with by prod, in order

mainVars == <<ls, out, vals, lsPassed>>
prodVars == <<prodF, prodRun>>
foldVars == <<foldF, foldRun>>
fnVars == <<fnOp, fnF, fnXs, fnY0, fnRet, fnCalls>>
vars == <<pc, ls, out, vals, lsPassed, prodF, prodRun, foldF, foldRun,
          fnOp, fnF, fnXs, fnY0, fnRet, fnCalls>>

(***************************************************************************)
(* Program constant and the bounds of the inputs of SpecFn.                *)
(***************************************************************************)
\* std::list<int64_t> ls(100)
N == 100

\* SpecFn: longest input sequence
MaxLen == 3
\* SpecFn: elements of the input sequences are 0..MaxElem
MaxElem == 2
\* SpecFn: longest iota sequence [0, ..., n-1] folded
MaxN == 6

(***************************************************************************)
(* The library pieces the program uses.                                    *)
(***************************************************************************)
\* std::iota over a list of n value-initialised elements, starting at 0
iota(n) == [k \in 1..n |-> k - 1]

\* std::list operator==: same size and equal elements position by position
list_eq(a, b) ==
    /\ Len(a) = Len(b)
    /\ \A k \in 1..Len(a) : a[k] = b[k]

\* C++ integer division by a positive divisor truncates toward zero
cdiv(a, b) ==
    IF a >= 0 THEN a \div b ELSE -((-a) \div b)

(***************************************************************************)
(* unit.                                                                   *)
(***************************************************************************)
\* A faulty unit, std::list<X>(x): x value-initialised elements.
unit_parentheses(x) == [k \in 1..x |-> 0]

\* std::list<X>{x}
unit(x) == <<x>>

\* unit taken as a function value: static_cast<U>(&unit)
unitFn == [x \in Int |-> unit(x)]

(***************************************************************************)
(* prod.  A call in progress is [stack, ret, retX, calls]: stack holds the *)
(* activations, the innermost last, each [x, y, at] with its parameter x   *)
(* (its own list object), its local y, and whether it is at its entry or   *)
(* has made the recursive call prod(f,x); ret is the value the activation  *)
(* that returned last returned, retX that activation's parameter object as *)
(* it was on return, calls the arguments f has been invoked with.          *)
(***************************************************************************)
\* A faulty splice that moves r in at y.begin().
splice_begin(y, r) == r \o y

\* y.splice(y.end(), r): y with the elements of r moved to its end
splice_end(y, r) == y \o r

\* The caller's sequence bound by reference to prod's parameter.
pass_by_reference(arg, param) == param

\* prod's parameter is std::list<X> x, a copy: whatever prod does to its
\* parameter object param, the caller's sequence arg stays as it was.
pass_by_value(arg, param) == arg

Activation(x) == [x |-> x, y |-> <<>>, at |-> "entry"]

\* the call prod(f, x) from outside prod
prod_call(x) ==
    [stack |-> <<Activation(x)>>, ret |-> <<>>, retX |-> <<>>,
     calls |-> <<>>]

\* the outermost activation has returned
prod_returned(r) == r.stack = <<>>

\* A faulty prod whose y is not initialised with f(x.front()).
prod_step_without_f(fn, r) ==
    IF r.stack = <<>> THEN r
    ELSE
      LET top == r.stack[Len(r.stack)]
          below == SubSeq(r.stack, 1, Len(r.stack) - 1)
      IN  IF top.at = "entry" /\ top.x = <<>>
          THEN [r EXCEPT !.stack = below, !.ret = <<>>, !.retX = top.x]
          ELSE IF top.at = "entry"
          THEN [r EXCEPT
                  !.stack = below \o
                      <<[x |-> Tail(top.x), y |-> <<>>, at |-> "called"],
                        Activation(Tail(top.x))>>]
          ELSE [r EXCEPT
                  !.stack = below,
                  !.ret = splice_end(top.y, r.ret),
                  !.retX = pass_by_value(top.x, r.retX)]

\* One step of the innermost activation:
\*   at its entry with x.empty(): return std::result_of_t<F(X)>{};
\*   at its entry otherwise: y{ f(x.front()) }; x.pop_front(); and the call
\*     prod(f,x), whose activation receives a copy of x;
\*   after that call: y.splice(y.end(), <its value>); return y.
prod_step(fn, r) ==
    IF r.stack = <<>> THEN r
    ELSE
      LET top == r.stack[Len(r.stack)]
          below == SubSeq(r.stack, 1, Len(r.stack) - 1)
      IN  IF top.at = "entry" /\ top.x = <<>>
          THEN [r EXCEPT !.stack = below, !.ret = <<>>, !.retX = top.x]
          ELSE IF top.at = "entry"
          THEN [r EXCEPT
                  !.calls = Append(r.calls, Head(top.x)),
                  !.stack = below \o
                      <<[x |-> Tail(top.x), y |-> fn[Head(top.x)],
                         at |-> "called"],
                        Activation(Tail(top.x))>>]
          ELSE [r EXCEPT
                  !.stack = below,
                  !.ret = splice_end(top.y, r.ret),
                  !.retX = pass_by_value(top.x, r.retX)]

RECURSIVE prod_steps(_, _, _)
\* n steps, one after the other (the first half of them, then the rest)
prod_steps(fn, r, n) ==
    IF n = 0 THEN r
    ELSE IF n = 1 THEN prod_step(fn, r)
    ELSE LET h == prod_steps(fn, r, n \div 2)
         IN  IF prod_returned(h) THEN h
             ELSE prod_steps(fn, h, n - n \div 2)

\* The value of prod(f, x): the call runs to its return.  A list of n
\* elements takes n + 1 activations, the last of one step, the others of
\* two.
prod(fn, x) == prod_steps(fn, prod_call(x), 2 * Len(x) + 1).ret

(***************************************************************************)
(* fmap.                                                                   *)
(***************************************************************************)
\* A faulty lambda that wraps y itself and leaves f out.
fmap_fn_without_f(fn) == [y \in Int |-> unit(y)]

\* The lambda fmap hands to prod: [=](auto y) { return unit(f(y)); }
fmap_fn(fn) == [y \in Int |-> unit(fn[y])]

fmap(fn, x) == prod(fmap_fn(fn), x)

(***************************************************************************)
(* foldl.  A call in progress is [m, k, y]: the list m, the number k of    *)
(* its elements the loop has visited, the accumulator y.                   *)
(***************************************************************************)
\* the call foldl(f, m, y)
foldl_call(m, y) == [m |-> m, k |-> 0, y |-> y]

\* the loop is over: return y
foldl_returned(r) == r.k = Len(r.m)

\* A faulty loop body that hands f the element first: y = f(i, y).
foldl_body_swapped(fn, y, i) == fn[<<i, y>>]

\* y = f(y, i)
foldl_body(fn, y, i) == fn[<<y, i>>]

\* one iteration of for(auto && i : m)
foldl_step(fn, r) ==
    IF r.k = Len(r.m) THEN r
    ELSE [r EXCEPT !.y = foldl_body(fn, r.y, r.m[r.k + 1]), !.k = r.k + 1]

RECURSIVE foldl_steps(_, _, _)
\* n iterations, one after the other (the first half of them, then the
\* rest)
foldl_steps(fn, r, n) ==
    IF n = 0 THEN r
    ELSE IF n = 1 THEN foldl_step(fn, r)
    ELSE LET h == foldl_steps(fn, r, n \div 2)
         IN  IF foldl_returned(h) THEN h
             ELSE foldl_steps(fn, h, n - n \div 2)

\* The value of foldl(f, m, y): the loop runs over all of m.
foldl(fn, m, y) == foldl_steps(fn, foldl_call(m, y), Len(m)).y

(***************************************************************************)
(* The lambdas of main.                                                    *)
(***************************************************************************)
f == [x \in Int |-> unit(x * x)]

g == [x \in Int |-> unit(x + x)]

law1 == [x \in Int |-> list_eq(prod(f, unit(x)), f[x])]

law2 == [x \in Int |-> list_eq(prod(unitFn, unit(x)), <<x>>)]

\* A faulty law3 that composes f and g the other way round on the left.
law3_swapped ==
    [x \in Int |->
        list_eq(prod(g, prod(f, unit(x))),
                prod([y \in Int |-> prod(f, g[y])], unit(x)))]

law3 ==
    [x \in Int |->
        list_eq(prod(f, prod(g, unit(x))),
                prod([y \in Int |-> prod(f, g[y])], unit(x)))]

\* s && law1(x) && law2(x) && law3(x): the laws are evaluated only while s
\* is true
laws_check ==
    [p \in BOOLEAN \X Int |->
        IF p[1] THEN law1[p[2]] /\ law2[p[2]] /\ law3[p[2]] ELSE FALSE]

sum == [p \in Int \X Int |-> p[1] + p[2]]

dif == [p \in Int \X Int |-> p[1] - p[2]]

sqr == [x \in Int |-> x * x]

\* A faulty sn1 that sums 0..x-1.
sn1_off_by_one(x) == cdiv(x * (x - 1), 2)

sn1(x) == cdiv(x * (x + 1), 2)

sn2(x) == cdiv(x * (x + 1) * (2 * x + 1), 6)

\* par(x, y) is z -> x(z, y)
par(x, y) == [z \in Int |-> x[<<z, y>>]]

\* dot(x, y) is z -> x(y(z))
dot(x, y) == [z \in Int |-> x[y[z]]]

\* A faulty dx_sqr that maps the differences and leaves sqr out.
dx_sqr_without_sqr ==
    [p \in Int \X Seq(Int) |-> fmap(par(dif, p[1]), p[2])]

dx_sqr ==
    [p \in Int \X Seq(Int) |-> fmap(dot(sqr, par(dif, p[1])), p[2])]

(***************************************************************************)
(* Callables that SpecFn passes besides the program's own: inputs of the   *)
(* calls under test.                                                       *)
(***************************************************************************)
\* an endofunctor with no result
none == [x \in Int |-> <<>>]

\* an endofunctor with x results: x, x - 1, ..., 1
countdown == [x \in Int |-> [k \in 1..x |-> x + 1 - k]]

\* an element function that is not symmetric around anything in 0..MaxElem
succ3 == [x \in Int |-> 3 * x + 1]

\* a combining function for which the order of the elements matters
horner == [p \in Int \X Int |-> 3 * p[1] + p[2]]

(***************************************************************************)
(* Callables by name.  "fmap f" names the lambda that fmap(f, x) hands to  *)
(* prod, "par dx_sqr ls" the closure par(dx_sqr, ls), which holds a copy   *)
(* of ls as it is when line 197 builds it.                                 *)
(***************************************************************************)
ElemFn(name) ==
    CASE name = "sqr" -> sqr
      [] name = "succ3" -> succ3

FmapLambda(name) ==
    CASE name = "sqr" -> "fmap sqr"
      [] name = "succ3" -> "fmap succ3"

EndoFn(name) ==
    CASE name = "f" -> f
      [] name = "g" -> g
      [] name = "unit" -> unitFn
      [] name = "none" -> none
      [] name = "countdown" -> countdown
      [] name = "fmap sqr" -> fmap_fn(sqr)
      [] name = "fmap succ3" -> fmap_fn(succ3)
      [] name = "par dx_sqr ls" -> par(dx_sqr, ls)

BinFn(name) ==
    CASE name = "laws_check" -> laws_check
      [] name = "sum" -> sum
      [] name = "dif" -> dif
      [] name = "horner" -> horner

(***************************************************************************)
(* The calls in progress.                                                  *)
(***************************************************************************)
\* the call prod(f, x) by main or by the harness
ProdCall(name, x) ==
    /\ prodF' = name
    /\ prodRun' = prod_call(x)

ProdReturned == prod_returned(prodRun)

ProdStep ==
    /\ ~ProdReturned
    /\ prodRun' = prod_step(EndoFn(prodF), prodRun)
    /\ UNCHANGED <<pc, mainVars, prodF, foldVars, fnVars>>

\* the call foldl(f, m, y) by main or by the harness
FoldlCall(name, m, y) ==
    /\ foldF' = name
    /\ foldRun' = foldl_call(m, y)

FoldlReturned == foldl_returned(foldRun)

FoldlStep ==
    /\ ~FoldlReturned
    /\ foldRun' = foldl_step(BinFn(foldF), foldRun)
    /\ UNCHANGED <<pc, mainVars, prodVars, foldF, fnVars>>

(***************************************************************************)
(* main.  out holds one entry per printf: the source line of the printf    *)
(* and the text that its result argument selects.                          *)
(***************************************************************************)
Printed(line, text) == [line |-> line, text |-> text]

\* foldl(laws_check, ls, true)
LawsFoldl ==
    /\ pc = "laws"
    /\ FoldlCall("laws_check", ls, TRUE)
    /\ pc' = "laws_foldl"
    /\ UNCHANGED <<mainVars, prodVars, fnVars>>

\* if(foldl(...)) { printf ... }: the if statement ends with the three
\* printf; Task 4 follows it whatever the outcome
LawsPrint ==
    /\ pc = "laws_foldl"
    /\ FoldlReturned
    /\ out' = IF foldRun.y
              THEN out \o <<Printed(144, "laws valid"),
                            Printed(145, "it is a monad"),
                            Printed(146, "start playing")>>
              ELSE out
    /\ pc' = "doubles"
    /\ UNCHANGED <<ls, vals, lsPassed, prodVars, foldVars, fnVars>>

\* prod(g, ls)
DoublesProd ==
    /\ pc = "doubles"
    /\ ProdCall("g", ls)
    /\ lsPassed' = lsPassed + 1
    /\ pc' = "doubles_prod"
    /\ UNCHANGED <<ls, out, vals, foldVars, fnVars>>

\* foldl(sum, <prod(g, ls)>, int64_t{})
DoublesFoldl ==
    /\ pc = "doubles_prod"
    /\ ProdReturned
    /\ ls' = pass_by_value(ls, prodRun.retX)
    /\ FoldlCall("sum", prodRun.ret, 0)
    /\ pc' = "doubles_foldl"
    /\ UNCHANGED <<out, vals, lsPassed, prodVars, fnVars>>

\* ... == 2*sn1(ls.size()-1) ? "true" : "false"
DoublesPrint ==
    /\ pc = "doubles_foldl"
    /\ FoldlReturned
    /\ out' = Append(out, Printed(164, IF foldRun.y = 2 * sn1(Len(ls) - 1)
                                      THEN "true" ELSE "false"))
    /\ pc' = "squares"
    /\ UNCHANGED <<ls, vals, lsPassed, prodVars, foldVars, fnVars>>

\* prod(f, ls)
SquaresProd ==
    /\ pc = "squares"
    /\ ProdCall("f", ls)
    /\ lsPassed' = lsPassed + 1
    /\ pc' = "squares_prod"
    /\ UNCHANGED <<ls, out, vals, foldVars, fnVars>>

\* foldl(sum, <prod(f, ls)>, int64_t{})
SquaresFoldl ==
    /\ pc = "squares_prod"
    /\ ProdReturned
    /\ ls' = pass_by_value(ls, prodRun.retX)
    /\ FoldlCall("sum", prodRun.ret, 0)
    /\ pc' = "squares_foldl"
    /\ UNCHANGED <<out, vals, lsPassed, prodVars, fnVars>>

\* ... == sn2(ls.size()-1) ? "true" : "false"
SquaresPrint ==
    /\ pc = "squares_foldl"
    /\ FoldlReturned
    /\ out' = Append(out, Printed(170, IF foldRun.y = sn2(Len(ls) - 1)
                                      THEN "true" ELSE "false"))
    /\ pc' = "sigma_squares"
    /\ UNCHANGED <<ls, vals, lsPassed, prodVars, foldVars, fnVars>>

(***************************************************************************)
(* Line 200.  The operands are evaluated left to right here; C++ leaves    *)
(* the order open, and none of them has an effect the others can see.      *)
(***************************************************************************)
\* sigma_squares(ls): fmap(sqr, x), which is prod(<lambda>, x)
SigmaSquaresFmap ==
    /\ pc = "sigma_squares"
    /\ ProdCall(FmapLambda("sqr"), ls)
    /\ lsPassed' = lsPassed + 1
    /\ pc' = "sigma_squares_prod"
    /\ UNCHANGED <<ls, out, vals, foldVars, fnVars>>

\* foldl(sum, <fmap(sqr,x)>, int64_t{})
SigmaSquaresFoldl ==
    /\ pc = "sigma_squares_prod"
    /\ ProdReturned
    /\ ls' = pass_by_value(ls, prodRun.retX)
    /\ FoldlCall("sum", prodRun.ret, 0)
    /\ pc' = "sigma_squares_foldl"
    /\ UNCHANGED <<out, vals, lsPassed, prodVars, fnVars>>

SigmaSquaresReturn ==
    /\ pc = "sigma_squares_foldl"
    /\ FoldlReturned
    /\ vals' = Append(vals, foldRun.y)
    /\ pc' = "sigma_sqr"
    /\ UNCHANGED <<ls, out, lsPassed, prodVars, foldVars, fnVars>>

\* sigma_sqr(ls): foldl(sum, x, int64_t{})
SigmaSqrFoldl ==
    /\ pc = "sigma_sqr"
    /\ FoldlCall("sum", ls, 0)
    /\ pc' = "sigma_sqr_foldl"
    /\ UNCHANGED <<mainVars, prodVars, fnVars>>

\* return sqr(<foldl(sum, x, int64_t{})>)
SigmaSqrReturn ==
    /\ pc = "sigma_sqr_foldl"
    /\ FoldlReturned
    /\ vals' = Append(vals, sqr[foldRun.y])
    /\ pc' = "sigma_dx2"
    /\ UNCHANGED <<ls, out, lsPassed, prodVars, foldVars, fnVars>>

\* sigma_dx2(ls): prod(par(dx_sqr,x), x)
SigmaDx2Prod ==
    /\ pc = "sigma_dx2"
    /\ ProdCall("par dx_sqr ls", ls)
    /\ lsPassed' = lsPassed + 1
    /\ pc' = "sigma_dx2_prod"
    /\ UNCHANGED <<ls, out, vals, foldVars, fnVars>>

\* return foldl(sum, <prod(par(dx_sqr,x),x)>, int64_t{}): the loop runs over
\* the 10000 elements within this transition
SigmaDx2Return ==
    /\ pc = "sigma_dx2_prod"
    /\ ProdReturned
    /\ ls' = pass_by_value(ls, prodRun.retX)
    /\ vals' = Append(vals, foldl(sum, prodRun.ret, 0))
    /\ pc' = "compare"
    /\ UNCHANGED <<out, lsPassed, prodVars, foldVars, fnVars>>

\* ls.size() * sigma_squares(ls) - sigma_sqr(ls) == sigma_dx2(ls) / 2.
\* size_t makes this arithmetic modulo 2^64; on values of magnitude below
\* 2^63 equality modulo 2^64 is equality.
ComparePrint ==
    /\ pc = "compare"
    /\ out' = Append(out,
                 Printed(199, IF Len(ls) * vals[1] - vals[2] = cdiv(vals[3], 2)
                              THEN "true"
                              ELSE "false (you overflowed it!)"))
    /\ pc' = "done"
    /\ UNCHANGED <<ls, vals, lsPassed, prodVars, foldVars, fnVars>>

Init ==
    /\ pc = "laws"
    /\ ls = iota(N)
    /\ out = <<>>
    /\ vals = <<>>
    /\ lsPassed = 0
    /\ prodF = "g"
    /\ prodRun = [stack |-> <<>>, ret |-> <<>>, retX |-> <<>>, calls |-> <<>>]
    /\ foldF = "sum"
    /\ foldRun = foldl_call(<<>>, 0)
    /\ fnOp = "main"
    /\ fnF = "g"
    /\ fnXs = <<>>
    /\ fnY0 = 0
    /\ fnRet = <<>>
    /\ fnCalls = <<>>

Next ==
    \/ LawsFoldl
    \/ LawsPrint
    \/ DoublesProd
    \/ DoublesFoldl
    \/ DoublesPrint
    \/ SquaresProd
    \/ SquaresFoldl
    \/ SquaresPrint
    \/ SigmaSquaresFmap
    \/ SigmaSquaresFoldl
    \/ SigmaSquaresReturn
    \/ SigmaSqrFoldl
    \/ SigmaSqrReturn
    \/ SigmaDx2Prod
    \/ SigmaDx2Return
    \/ ComparePrint
    \/ ProdStep
    \/ FoldlStep

Spec == Init /\ [][Next]_vars

(***************************************************************************)
(* SpecFn: one call of prod, fmap or foldl on inputs from bounded sets.    *)
(***************************************************************************)
BSeq(S, n) == UNION {[1..k -> S] : k \in 0..n}

Elems == 0..MaxElem

FnInputs ==
    [op : {"prod"}, f : {"f", "g", "unit", "none", "countdown"},
     xs : BSeq(Elems, MaxLen), y0 : {0}]
    \cup
    [op : {"fmap"}, f : {"sqr", "succ3"},
     xs : BSeq(Elems, MaxLen), y0 : {0}]
    \cup
    [op : {"foldl"}, f : {"sum", "dif", "horner"},
     xs : BSeq(Elems, MaxLen) \cup {iota(n) : n \in 0..MaxN}, y0 : {0, 1}]

InitFn ==
    /\ pc = "fn_call"
    /\ \E c \in FnInputs :
          /\ fnOp = c.op
          /\ fnF = c.f
          /\ fnXs = c.xs
          /\ fnY0 = c.y0
    /\ fnRet = <<>>
    /\ fnCalls = <<>>
    /\ ls = iota(N)
    /\ out = <<>>
    /\ vals = <<>>
    /\ lsPassed = 0
    /\ prodF = "g"
    /\ prodRun = [stack |-> <<>>, ret |-> <<>>, retX |-> <<>>, calls |-> <<>>]
    /\ foldF = "sum"
    /\ foldRun = foldl_call(<<>>, 0)

\* prod(f, xs)
FnProd ==
    /\ pc = "fn_call"
    /\ fnOp = "prod"
    /\ ProdCall(fnF, fnXs)
    /\ pc' = "fn_prod"
    /\ UNCHANGED <<mainVars, foldVars, fnVars>>

\* fmap(f, xs): prod(<lambda>, x)
FnFmap ==
    /\ pc = "fn_call"
    /\ fnOp = "fmap"
    /\ ProdCall(FmapLambda(fnF), fnXs)
    /\ pc' = "fn_prod"
    /\ UNCHANGED <<mainVars, foldVars, fnVars>>

FnProdReturn ==
    /\ pc = "fn_prod"
    /\ ProdReturned
    /\ fnRet' = prodRun.ret
    /\ fnCalls' = prodRun.calls
    /\ fnXs' = pass_by_value(fnXs, prodRun.retX)
    /\ pc' = "fn_done"
    /\ UNCHANGED <<mainVars, prodVars, foldVars, fnOp, fnF, fnY0>>

\* foldl(f, xs, y0)
FnFoldl ==
    /\ pc = "fn_call"
    /\ fnOp = "foldl"
    /\ FoldlCall(fnF, fnXs, fnY0)
    /\ pc' = "fn_foldl"
    /\ UNCHANGED <<mainVars, prodVars, fnVars>>

FnFoldlReturn ==
    /\ pc = "fn_foldl"
    /\ FoldlReturned
    /\ fnRet' = foldRun.y
    /\ pc' = "fn_done"
    /\ UNCHANGED <<mainVars, prodVars, foldVars, fnOp, fnF, fnXs, fnY0, fnCalls>>

NextFn ==
    \/ FnProd
    \/ FnFmap
    \/ FnProdReturn
    \/ FnFoldl
    \/ FnFoldlReturn
    \/ ProdStep
    \/ FoldlStep

SpecFn == InitFn /\ [][NextFn]_vars

(***************************************************************************)
(* Reference definitions the properties compare the program with.          *)
(***************************************************************************)
RECURSIVE ConcatInOrder(_, _, _)
\* fn[xs[1]] \o ... \o fn[xs[k]], built from the right end
ConcatInOrder(fn, xs, k) ==
    IF k = 0 THEN <<>> ELSE ConcatInOrder(fn, xs, k - 1) \o fn[xs[k]]

RECURSIVE SumOfLengths(_, _, _)
SumOfLengths(fn, xs, k) ==
    IF k = 0 THEN 0 ELSE SumOfLengths(fn, xs, k - 1) + Len(fn[xs[k]])

RECURSIVE LeftFold(_, _, _, _)
\* fn(... fn(fn(y0, xs[1]), xs[2]) ..., xs[k])
LeftFold(fn, xs, k, y0) ==
    IF k = 0 THEN y0 ELSE fn[<<LeftFold(fn, xs, k - 1, y0), xs[k]>>]

StructurallyEqual(a, b) ==
    /\ Len(a) = Len(b)
    /\ \A k \in 1..Len(a) : a[k] = b[k]

Lines(o) == {o[k] : k \in 1..Len(o)}

\* the value the law checks are testing: the element foldl visited last
Tested == foldRun.m[foldRun.k]

LawTested == pc = "laws_foldl" /\ foldRun.k >= 1

\* TLC's integers are 32 bits wide, so values are held against 2^30, which
\* lies well inside the range of int64_t
FitsInt64(v) == -(2^30) <= v /\ v <= 2^30

(***************************************************************************)
(* C1.  prod(f, xs) returns f(x1) ++ ... ++ f(xn) in the order of xs, its  *)
(* length the sum of the lengths of the f(xi); f is invoked exactly once   *)
(* per element (in order); on the empty sequence the result is empty and f *)
(* is never invoked.  Holds of the call run one step per transition and of *)
(* the call run within one transition.                                     *)
(***************************************************************************)
C1_ProdConcatenates ==
    (pc = "fn_done" /\ fnOp = "prod") =>
        LET fn == EndoFn(fnF)
        IN  /\ fnRet = ConcatInOrder(fn, fnXs, Len(fnXs))
            /\ Len(fnRet) = SumOfLengths(fn, fnXs, Len(fnXs))
            /\ fnCalls = fnXs
            /\ fnXs = <<>> => (fnRet = <<>> /\ fnCalls = <<>>)
            /\ prod(fn, fnXs) = fnRet

C1_Witness ==
    /\ pc = "fn_done"
    /\ fnOp = "prod"
    /\ fnF = "countdown"
    /\ fnXs = <<2, 0, 1>>
    /\ fnRet = <<2, 1, 1>>
    /\ fnCalls = <<2, 0, 1>>

(***************************************************************************)
(* C2.  Left identity: for every tested x of 0..99, prod(f, unit(x)) has   *)
(* the same length and the same elements in the same order as f(x), and    *)
(* the program's law1 says so.                                             *)
(***************************************************************************)
C2_LeftIdentity ==
    LawTested =>
        /\ Tested \in 0..(N - 1)
        /\ StructurallyEqual(prod(f, unit(Tested)), f[Tested])
        /\ law1[Tested]

C2_Witness ==
    /\ pc = "laws_foldl"
    /\ foldRun.k = N
    /\ foldRun.y = TRUE
    /\ prod(f, unit(Tested)) = <<99 * 99>>

(***************************************************************************)
(* C3.  Right identity: for every tested x of 0..99, prod(unit, unit(x))   *)
(* is the one-element sequence [x], which is unit(x), and the program's    *)
(* law2 says so.                                                           *)
(***************************************************************************)
C3_RightIdentity ==
    LawTested =>
        /\ StructurallyEqual(prod(unitFn, unit(Tested)), unit(Tested))
        /\ prod(unitFn, unit(Tested)) = <<Tested>>
        /\ law2[Tested]

C3_Witness ==
    /\ pc = "laws_foldl"
    /\ foldRun.k = N
    /\ foldRun.y = TRUE
    /\ prod(unitFn, unit(Tested)) = <<99>>

(***************************************************************************)
(* C4.  Associativity: for every tested x of 0..99,                        *)
(* prod(f, prod(g, unit(x))) is structurally equal to                      *)
(* prod(y -> prod(f, g(y)), unit(x)), and the program's law3 says so.      *)
(***************************************************************************)
C4_Associativity ==
    LawTested =>
        /\ StructurallyEqual(
              prod(f, prod(g, unit(Tested))),
              prod([y \in Int |-> prod(f, g[y])], unit(Tested)))
        /\ law3[Tested]

C4_Witness ==
    /\ pc = "laws_foldl"
    /\ foldRun.k = N
    /\ foldRun.y = TRUE
    /\ prod(f, prod(g, unit(Tested))) = <<(99 + 99) * (99 + 99)>>

(***************************************************************************)
(* C5.  fmap(f, xs) has the length of xs and its i-th element is f of the  *)
(* i-th element of xs.  Holds of the call run one step per transition and  *)
(* of the call run within one transition.                                  *)
(***************************************************************************)
C5_FmapElementwise ==
    (pc = "fn_done" /\ fnOp = "fmap") =>
        /\ Len(fnRet) = Len(fnXs)
        /\ \A i \in 1..Len(fnXs) : fnRet[i] = ElemFn(fnF)[fnXs[i]]
        /\ fmap(ElemFn(fnF), fnXs) = fnRet

C5_Witness ==
    /\ pc = "fn_done"
    /\ fnOp = "fmap"
    /\ fnF = "succ3"
    /\ fnXs = <<2, 0, 1>>
    /\ fnRet = <<7, 1, 4>>

(***************************************************************************)
(* C6.  foldl(f, xs, y0) is the left fold f(...f(f(y0, x1), x2)..., xn):   *)
(* after k iterations the accumulator is the left fold of the first k      *)
(* elements, the value returned is that of all of them, and y0 for the     *)
(* empty sequence; foldl(sum, [0, ..., n-1], 0) = n(n-1)/2.                *)
(***************************************************************************)
C6_FoldlLeftFold ==
    /\ pc = "fn_foldl" =>
          foldRun.y = LeftFold(BinFn(fnF), fnXs, foldRun.k, fnY0)
    /\ (pc = "fn_done" /\ fnOp = "foldl") =>
          LET n == Len(fnXs)
          IN  /\ fnRet = LeftFold(BinFn(fnF), fnXs, n, fnY0)
              /\ foldl(BinFn(fnF), fnXs, fnY0) = fnRet
              /\ n = 0 => fnRet = fnY0
              /\ (fnF = "sum" /\ fnY0 = 0 /\ fnXs = iota(n)) =>
                    fnRet = (n * (n - 1)) \div 2

C6_Witness ==
    /\ pc = "fn_done"
    /\ fnOp = "foldl"
    /\ fnF = "sum"
    /\ fnY0 = 0
    /\ fnXs = <<0, 1, 2, 3, 4, 5>>
    /\ fnRet = 15

(***************************************************************************)
(* C7.  Whenever main is in the arithmetic demonstration or past it, the   *)
(* conjunction of the law checks folded over ls was true: the confirmation *)
(* of line 144, printed exactly when foldl(laws_check, ls, true) is true,  *)
(* is in the output.                                                       *)
(***************************************************************************)
InDemonstration == pc \notin {"laws", "laws_foldl", "fn_call", "fn_prod",
                              "fn_foldl", "fn_done"}

C7_DemonstrationOnlyAfterLaws ==
    /\ InDemonstration => Printed(144, "laws valid") \in Lines(out)
    /\ pc = "doubles" =>
          /\ foldF = "laws_check"
          /\ foldRun.m = ls
          /\ FoldlReturned
          /\ foldRun.y = TRUE

C7_Witness ==
    /\ pc = "doubles_prod"
    /\ ~ProdReturned
    /\ Printed(144, "laws valid") \in Lines(out)

(***************************************************************************)
(* C8 as claimed.  Once prod(g, ls) has returned, the sequence main passed *)
(* is empty, and main passes ls to prod at most once.                      *)
(***************************************************************************)
C8_ProdEmptiesItsArgument ==
    /\ lsPassed <= 1
    /\ (lsPassed >= 1 /\ ProdReturned) => ls = <<>>

(***************************************************************************)
(* C8 as amended.  prod takes its sequence by value and works on that      *)
(* copy, of which each activation pops only the front: the sequence the    *)
(* caller passed is unchanged after the call (ls holds 0..99 in every      *)
(* state, and the parameter of the outermost activation returns as the     *)
(* tail of ls), and main passes ls to prod four times.                     *)
(***************************************************************************)
C8_ProdLeavesItsArgument ==
    /\ ls = iota(N)
    /\ lsPassed <= 4
    /\ (lsPassed >= 1 /\ ProdReturned) => prodRun.retX = Tail(ls)
    /\ pc = "done" => lsPassed = 4

C8_Witness ==
    /\ pc = "squares_foldl"
    /\ lsPassed = 2
    /\ ProdReturned
    /\ Len(prodRun.ret) = 100
    /\ Len(prodRun.retX) = 99
    /\ Len(ls) = 100

(***************************************************************************)
(* C9.  For ls = 0..99 the sum of the doubles is 9900 = 2*(99*100/2) and   *)
(* the sum of the squares is 328350 = 99*100*199/6, and both checks print  *)
(* "true".                                                                 *)
(***************************************************************************)
C9_SumsOfDoublesAndSquares ==
    /\ (pc = "doubles_foldl" /\ FoldlReturned) =>
          /\ foldRun.y = 9900
          /\ 2 * sn1(Len(ls) - 1) = 9900
    /\ (pc = "squares_foldl" /\ FoldlReturned) =>
          /\ foldRun.y = 328350
          /\ sn2(Len(ls) - 1) = 328350
    /\ pc \in {"squares", "squares_prod", "squares_foldl"} =>
          Printed(164, "true") \in Lines(out)
    /\ pc \in {"sigma_squares", "done"} =>
          /\ Printed(164, "true") \in Lines(out)
          /\ Printed(170, "true") \in Lines(out)

C9_Witness ==
    /\ pc = "sigma_squares"
    /\ foldRun.y = 328350
    /\ Printed(164, "true") \in Lines(out)
    /\ Printed(170, "true") \in Lines(out)

(***************************************************************************)
(* C10.  For ls = 0..99, n * sum(x^2) - (sum x)^2 equals half of the sum   *)
(* of (xi - xj)^2 over all ordered pairs, computed as                      *)
(* foldl(sum, prod(par(dx_sqr,ls),ls), 0) / 2; the third check prints      *)
(* "true"; and every value on the way stays inside the integer range: the  *)
(* squared differences are all between 0 and 99^2, so every accumulator of *)
(* the sum over them lies between 0 and the total, and the totals and the  *)
(* operands of the comparison fit.                                         *)
(***************************************************************************)
C10_PairwiseIdentity ==
    /\ foldF = "sum" => FitsInt64(foldRun.y)
    /\ \A k \in 1..Len(vals) : FitsInt64(vals[k])
    /\ pc = "sigma_dx2_prod" =>
          \A a \in 1..Len(prodRun.stack) :
              LET row == prodRun.stack[a].y
              IN  prodRun.stack[a].at = "called" =>
                      /\ Len(row) = N
                      /\ \A k \in 1..N :
                            0 <= row[k] /\ row[k] <= (N - 1) * (N - 1)
    /\ (pc = "sigma_dx2_prod" /\ ProdReturned) =>
          LET d == prodRun.ret
          IN  /\ Len(d) = N * N
              /\ \A k \in 1..Len(d) : 0 <= d[k] /\ d[k] <= (N - 1) * (N - 1)
              /\ \A i, j \in {1, 2, N - 1, N} :
                    d[(i - 1) * N + j] = (ls[j] - ls[i]) * (ls[j] - ls[i])
    /\ pc \in {"compare", "done"} =>
          /\ vals = <<328350, 4950 * 4950, 16665000>>
          /\ FitsInt64(N * vals[1])
          /\ N * vals[1] - vals[2] = vals[3] \div 2
    /\ pc = "done" =>
          /\ Printed(199, "true") \in Lines(out)
          /\ Printed(199, "false (you overflowed it!)") \notin Lines(out)

C10_Witness ==
    /\ pc = "done"
    /\ vals[3] = 16665000
    /\ Printed(199, "true") \in Lines(out)

=============================================================================
